---- MODULE Spec2Model ----
(***************************************************************************)
(* Phenology curve matching of Terroir-hunter (src/AHP.py, the part that   *)
(* follows "=== Hybrid Phenology Matching.py ==="): clean_ndvi_series,     *)
(* extract_landmarks, warp_and_match, calculate_similarity and the         *)
(* similarity search that ranks the sampled candidates; and the session of *)
(* the dashboard (src/app.py) that runs the two scripts and stages their    *)
(* output files.                                                           *)
(*                                                                         *)
(* Numbers.  A float is modelled by an integer in a fixed unit; a division *)
(* whose result is not a multiple of the unit rounds down.  np.nan is the  *)
(* reserved value NaN.  An NDVI sample is an integer number of hundredths.  *)
(* A smoothed curve (the result of savgol_filter) and everything computed  *)
(* from it is kept multiplied by SavgolDen, the common denominator of the  *)
(* filter's coefficients, so that smoothing and the three gradients are    *)
(* exact.  Sequences are 1-based: Python's index k is position k + 1.      *)
(***************************************************************************)
EXTENDS Integers, Sequences, FiniteSets, TLC

VARIABLES
    pc,             \* position of the running script or of the function call
    best_geom,      \* the reference region (its NDVI series is ref_ndvi below)
    sample_pts,     \* the sampled candidate points, in sampling order
    SIM_THRESHOLD,  \* output setting: minimal similarity of a reported region
    TOP_N,          \* output setting: number of regions reported
    ref_smooth,     \* smoothed reference curve
    ref_marks,      \* landmarks of the reference
    idx,            \* number of candidates the loop has taken from sample_pts
    evaluated,      \* candidates handed to extract_landmarks so far, in order
    results,        \* the list the loop appends to (sorted at the end)
    top_results,    \* results[:TOP_N]
    error,          \* the exception that ended the script, or "none"
    arg,            \* arguments of the function call under study
    ret,            \* its result
    session_state,  \* st.session_state of the dashboard: ahp_done, hybrid_done
    scan_mode,      \* the mode selected in the sidebar
    files,          \* the output files that exist beside app.py
    page,           \* what the last run of app.py rendered
    history         \* the scripts that have run to their end in this session

vars == <<pc, best_geom, sample_pts, SIM_THRESHOLD, TOP_N, ref_smooth, ref_marks,
          idx, evaluated, results, top_results, error, arg, ret,
          session_state, scan_mode, files, page, history>>

(***************************************************************************)
(* Arithmetic helpers                                                      *)
(***************************************************************************)
NaN == -2147483647

IsNaN(v) == v = NaN

Abs(a) == IF a < 0 THEN -a ELSE a

Min(a, b) == IF a <= b THEN a ELSE b

Max(a, b) == IF a >= b THEN a ELSE b

RECURSIVE Gcd(_, _)
Gcd(a, b) == IF b = 0 THEN a ELSE Gcd(b, a % b)

RECURSIVE LcmUpTo(_)
LcmUpTo(n) == IF n <= 1 THEN 1 ELSE LET l == LcmUpTo(n - 1) IN (l * n) \div Gcd(l, n)

\* floor(a * n / d) for 0 <= n, 0 < d, without forming a * n
MulDivFloor(a, n, d) ==
    LET g  == Gcd(n, d)
        n1 == n \div g
        d1 == d \div g
    IN  (a \div d1) * n1 + ((a % d1) * n1) \div d1

\* the sum of f[lo..hi], halving the range
RECURSIVE SumRange(_, _, _)
SumRange(f, lo, hi) ==
    IF lo > hi THEN 0
    ELSE IF lo = hi THEN f[lo]
    ELSE LET mid == (lo + hi) \div 2
         IN  SumRange(f, lo, mid) + SumRange(f, mid + 1, hi)

\* a sequence of integers in ascending order (sorted(...) of a short list)
RECURSIVE Sorted(_)
Sorted(s) ==
    IF s = <<>> THEN <<>>
    ELSE LET rest == Sorted(Tail(s))
             less == SelectSeq(rest, LAMBDA v : v < Head(s))
             more == SelectSeq(rest, LAMBDA v : v >= Head(s))
         IN  less \o <<Head(s)>> \o more

\* the positions of s that hold a number, ascending (x[valid])
ValidIdx(s) == SelectSeq([k \in 1..Len(s) |-> k], LAMBDA k : ~IsNaN(s[k]))

\* largest j with xp[j] <= x, for xp ascending and xp[1] <= x
LastLeq(xp, x) ==
    CHOOSE j \in 1..Len(xp) : xp[j] <= x /\ (j = Len(xp) \/ xp[j + 1] > x)

\* the elements of a finite set of integers in ascending order
SortedSeq(S) ==
    [k \in 1..Cardinality(S) |-> CHOOSE p \in S : Cardinality({q \in S : q < p}) = k - 1]

\* a variant that continues the slope of the first and of the last segment
np_interp_Extrapolating(x, xp, fp) ==
    LET n == Len(xp)
        j == IF x <= xp[1] THEN 1 ELSE IF x >= xp[n] THEN n - 1 ELSE LastLeq(xp, x)
    IN  fp[j] + MulDivFloor(fp[j + 1] - fp[j], x - xp[j], xp[j + 1] - xp[j])

(***************************************************************************)
(* np.interp(x, xp, fp) at an integer x: the piecewise-linear interpolant  *)
(* through (xp[j], fp[j]); left of xp[1] it is fp[1], right of the last    *)
(* point it is the last value (np.interp holds the end values).            *)
(***************************************************************************)
np_interp(x, xp, fp) ==
    IF x <= xp[1] THEN fp[1]
    ELSE IF x >= xp[Len(xp)] THEN fp[Len(xp)]
    ELSE LET j == LastLeq(xp, x)
         IN  fp[j] + MulDivFloor(fp[j + 1] - fp[j], x - xp[j], xp[j + 1] - xp[j])

(***************************************************************************)
(* clean_ndvi_series (AHP.py 297-306)                                      *)
(***************************************************************************)
MinValid == 3

CleanWith(series, minValid) ==
    LET valid == ValidIdx(series)
        fp    == [j \in 1..Len(valid) |-> series[valid[j]]]
    IN  IF \A k \in 1..Len(series) : IsNaN(series[k])
        THEN [kind |-> "None"]
        ELSE IF Len(valid) < minValid
        THEN [kind |-> "None"]
        ELSE [kind   |-> "ok",
              series |-> [k \in 1..Len(series) |->
                            IF IsNaN(series[k]) THEN np_interp(k, valid, fp)
                            ELSE series[k]]]

\* a cleaner that fills the first missing entry only
clean_ndvi_series_FirstMissingOnly(ndvi_series) ==
    LET full == CleanWith(ndvi_series, MinValid)
    IN  IF full.kind = "None" THEN full
        ELSE [kind   |-> "ok",
              series |-> [k \in 1..Len(ndvi_series) |->
                            IF \E j \in 1..k - 1 : IsNaN(ndvi_series[j])
                            THEN ndvi_series[k]
                            ELSE full.series[k]]]

\* a cleaner that accepts a series with one valid sample less
clean_ndvi_series_LooseCount(ndvi_series) == CleanWith(ndvi_series, MinValid - 1)

clean_ndvi_series(ndvi_series) == CleanWith(ndvi_series, MinValid)

(***************************************************************************)
(* savgol_filter(cleaned, window_length=31, polyorder=3), mode 'interp'    *)
(* (AHP.py 318).  Inside the series a sample is replaced by the value at   *)
(* the window centre of the least-squares cubic through the 31 samples     *)
(* around it; the first and last 15 samples are the values of the cubic    *)
(* fitted to the first and last 31 samples.  With the Gram polynomials     *)
(* 1, x, x^2 - 80, 5x^3 - 719x on -15..15 (squared norms 31, 2480, 158224, *)
(* 242082720) the fitted value at offset t is sum_j H(t, j) * y[c + j],    *)
(* H(t, j) = sum_k p_k(t) p_k(j) / norm_k = SavgolNum(t, j) / SavgolDen.   *)
(* A window longer than the series raises ValueError.                      *)
(***************************************************************************)
WindowLength == 31

HalfWindow == (WindowLength - 1) \div 2

SavgolDen == 1344904

Gram2(x) == x * x - 80

Gram3(x) == 5 * x * x * x - 719 * x

SavgolNum(t, j) ==
    (7809120 + 97614 * t * j + 1530 * Gram2(t) * Gram2(j) + Gram3(t) * Gram3(j)) \div 180

RECURSIVE WindowSum(_, _, _, _)
WindowSum(y, c, t, j) ==
    IF j > HalfWindow THEN 0
    ELSE SavgolNum(t, j) * y[c + j] + WindowSum(y, c, t, j + 1)

Strict(s) == SubSeq(s, 1, Len(s))

\* the smoothed curve, times SavgolDen; requires WindowLength <= Len(y)
savgol_filter(y) ==
    Strict([i \in 1..Len(y) |->
              LET c == Max(HalfWindow + 1, Min(i, Len(y) - HalfWindow))
              IN  WindowSum(y, c, i - c, -HalfWindow)])

(***************************************************************************)
(* np.gradient(y), times 2: central differences inside, one-sided          *)
(* differences at both ends (AHP.py 321-323, 400-401).  Len(y) >= 2.       *)
(***************************************************************************)
np_gradient2(y) ==
    Strict([i \in 1..Len(y) |->
              IF i = 1 THEN 2 * (y[2] - y[1])
              ELSE IF i = Len(y) THEN 2 * (y[i] - y[i - 1])
              ELSE y[i + 1] - y[i - 1]])

(***************************************************************************)
(* scipy.signal.find_peaks(x, height=h, distance=d) (AHP.py 333, 335).     *)
(* Positions here are 1-based; PeakLists turns them into Python indices.    *)
(***************************************************************************)
\* end of the run of samples equal to x[i] that starts at i, not past Len(x)
PlateauAhead(x, i) ==
    CHOOSE a \in (i + 1)..Len(x) :
        /\ a = Len(x) \/ x[a] # x[i]
        /\ \A b \in (i + 1)..(a - 1) : x[b] = x[i]

\* local maxima: a rise into a plateau that is followed by a fall; the peak
\* is the middle of the plateau; the two end samples are never peaks
LocalMaxima(x) ==
    SortedSeq({(i + PlateauAhead(x, i) - 1) \div 2 :
                  i \in {k \in 2..(Len(x) - 1) : x[k - 1] < x[k] /\ x[PlateauAhead(x, k)] < x[k]}})

\* the peak processed next: highest sample among todo, the later one on a tie
BestOf(x, pk, todo) ==
    CHOOSE j \in todo : \A k \in todo : x[pk[k]] < x[pk[j]] \/ (x[pk[k]] = x[pk[j]] /\ k <= j)

\* peaks are taken from the highest down; a peak that is kept removes
\* every other peak closer than d
RECURSIVE SelectByDistance(_, _, _, _, _)
SelectByDistance(x, pk, d, todo, removed) ==
    IF todo = {} THEN removed
    ELSE LET j == BestOf(x, pk, todo)
         IN  IF j \in removed
             THEN SelectByDistance(x, pk, d, todo \ {j}, removed)
             ELSE SelectByDistance(x, pk, d, todo \ {j},
                      removed \cup {k \in 1..Len(pk) : k # j /\ Abs(pk[k] - pk[j]) < d})

find_peaks(x, height, distance) ==
    LET maxima  == LocalMaxima(x)
        high    == SelectSeq(maxima, LAMBDA p : x[p] >= height)
        removed == SelectByDistance(x, high, distance, 1..Len(high), {})
        ix      == [k \in 1..Len(high) |-> k]
        kept    == SelectSeq(ix, LAMBDA k : k \notin removed)
    IN  [k \in 1..Len(kept) |-> high[kept[k]]]

(***************************************************************************)
(* extract_landmarks (AHP.py 308-351)                                      *)
(***************************************************************************)
\* an NDVI of 1.0 in the unit of a smoothed curve: samples are hundredths
CurveUnit == SavgolDen * 100

SplitDay == 180

PeakDistance == 20

\* height=0.0001 in the unit of the third derivative, which is the unit of
\* the smoothed curve times 8 (three gradients), rounded up
PeakHeight == (8 * CurveUnit + 9999) \div 10000

DefaultLandmarks == [Greenup |-> 100, Maturity |-> 150, Senescence |-> 260, Dormancy |-> 300]

Negate(x) == [i \in 1..Len(x) |-> -x[i]]

\* a variant that leaves the downward peaks as indices into d3[180:]
PeakListsUnshifted(smooth_ndvi) ==
    LET d1   == np_gradient2(smooth_ndvi)
        d2   == np_gradient2(d1)
        d3   == np_gradient2(d2)
        head == SubSeq(d3, 1, Min(SplitDay, Len(d3)))
        tail == SubSeq(d3, SplitDay + 1, Len(d3))
        up   == find_peaks(head, PeakHeight, PeakDistance)
        down == find_peaks(Negate(tail), PeakHeight, PeakDistance)
    IN  [upward_peaks   |-> [k \in 1..Len(up) |-> up[k] - 1],
         downward_peaks |-> [k \in 1..Len(down) |-> down[k] - 1]]

\* upward_peaks and downward_peaks as Python indices
PeakLists(smooth_ndvi) ==
    LET d1   == np_gradient2(smooth_ndvi)
        d2   == np_gradient2(d1)
        d3   == np_gradient2(d2)
        head == SubSeq(d3, 1, Min(SplitDay, Len(d3)))
        tail == SubSeq(d3, SplitDay + 1, Len(d3))
        up   == find_peaks(head, PeakHeight, PeakDistance)
        down == find_peaks(Negate(tail), PeakHeight, PeakDistance)
    IN  [upward_peaks   |-> [k \in 1..Len(up) |-> up[k] - 1],
         downward_peaks |-> [k \in 1..Len(down) |-> down[k] - 1 + SplitDay]]

\* the try block: an index into an empty peak list raises, and the bare
\* except replaces the whole dictionary by the fixed points
\* a variant that keeps the detected half and defaults only the missing half
AssignLandmarksMixed(upward_peaks, downward_peaks) ==
    [Greenup    |-> IF upward_peaks = <<>> THEN DefaultLandmarks.Greenup
                    ELSE upward_peaks[1],
     Maturity   |-> IF upward_peaks = <<>> THEN DefaultLandmarks.Maturity
                    ELSE upward_peaks[Len(upward_peaks)],
     Senescence |-> IF downward_peaks = <<>> THEN DefaultLandmarks.Senescence
                    ELSE downward_peaks[1],
     Dormancy   |-> IF downward_peaks = <<>> THEN DefaultLandmarks.Dormancy
                    ELSE downward_peaks[Len(downward_peaks)]]

AssignLandmarks(upward_peaks, downward_peaks) ==
    IF upward_peaks = <<>> \/ downward_peaks = <<>>
    THEN DefaultLandmarks
    ELSE [Greenup    |-> upward_peaks[1],
          Maturity   |-> upward_peaks[Len(upward_peaks)],
          Senescence |-> downward_peaks[1],
          Dormancy   |-> downward_peaks[Len(downward_peaks)]]

\* the result (smooth_ndvi, landmarks), (None, None), or the ValueError of
\* savgol_filter; the two peak lists are kept beside the result
extract_landmarks(ndvi_series) ==
    LET cleaned == clean_ndvi_series(ndvi_series)
    IN  IF cleaned.kind = "None" THEN [kind |-> "None"]
        ELSE IF WindowLength > Len(cleaned.series) THEN [kind |-> "ValueError"]
        ELSE LET smooth_ndvi == savgol_filter(cleaned.series)
                 peaks       == PeakLists(smooth_ndvi)
             IN  [kind           |-> "ok",
                  smooth         |-> smooth_ndvi,
                  landmarks      |-> AssignLandmarks(peaks.upward_peaks, peaks.downward_peaks),
                  upward_peaks   |-> peaks.upward_peaks,
                  downward_peaks |-> peaks.downward_peaks]

(***************************************************************************)
(* Specification SpecClean: clean_ndvi_series applied to every short       *)
(* series over a few values and np.nan.                                    *)
(***************************************************************************)
MaxLen == 5

ValueUnit == LcmUpTo(MaxLen)

CleanValues == {NaN, 0, ValueUnit, 3 * ValueUnit}

CleanInputs == UNION {[1..n -> CleanValues] : n \in 0..MaxLen}

sessionVars == <<session_state, scan_mode, files, page, history>>

\* no dashboard session is open
NoSession ==
    /\ session_state = <<>>
    /\ scan_mode = "none"
    /\ files = {}
    /\ page = <<>>
    /\ history = {}

Idle ==
    /\ NoSession
    /\ best_geom = 0
    /\ sample_pts = <<>>
    /\ SIM_THRESHOLD = 0
    /\ TOP_N = 0
    /\ ref_smooth = <<>>
    /\ ref_marks = <<>>
    /\ idx = 0
    /\ evaluated = <<>>
    /\ results = <<>>
    /\ top_results = <<>>
    /\ error = "none"

rankVars == <<best_geom, sample_pts, SIM_THRESHOLD, TOP_N, ref_smooth, ref_marks,
              idx, evaluated, results, top_results, error, sessionVars>>

InitClean ==
    /\ pc = "call"
    /\ arg \in CleanInputs
    /\ ret = [kind |-> "pending"]
    /\ Idle

CallClean ==
    /\ pc = "call"
    /\ ret' = clean_ndvi_series(arg)
    /\ pc' = "return"
    /\ UNCHANGED <<arg, rankVars>>

NextClean == CallClean

SpecClean == InitClean /\ [][NextClean]_vars

(***************************************************************************)
(* warp_and_match (AHP.py 356-389)                                         *)
(*                                                                         *)
(* A fractional day is a record [num, den] with den > 0; den = 0 is nan.   *)
(***************************************************************************)
NaNDay == [num |-> 0, den |-> 0]

IsNaNDay(t) == t.den = 0

YearEnd == 365

\* get_ndvi_series returns one sample per day of the year
SeriesLen == 365

ClipMax == 364

\* a variant that ends at the last day index instead of 365
AnchorsEndAtLastDay(lm) ==
    <<0>> \o Sorted(<<lm.Greenup, lm.Maturity, lm.Senescence, lm.Dormancy>>) \o <<YearEnd - 1>>

\* a variant without the anchors 0 and 365
AnchorsNoEnds(lm) == Sorted(<<lm.Greenup, lm.Maturity, lm.Senescence, lm.Dormancy>>)

\* x_ref / x_tgt: 0, the landmark days in ascending order, 365
Anchors(lm) ==
    <<0>> \o Sorted(<<lm.Greenup, lm.Maturity, lm.Senescence, lm.Dormancy>>) \o <<YearEnd>>

\* interp1d(x, y, kind='linear', fill_value="extrapolate")(q) for an integer
\* q: the segment is found by searchsorted (number of x below q) clipped to
\* 1..len-1, and its line is used, also outside the anchors.  A segment of
\* width 0 is chosen only when q is the first anchor and the second anchor
\* equals it; the slope is then 0/0 and the value nan.
Interp1dExtrapolate(x, y, q) ==
    LET below == Cardinality({k \in 1..Len(x) : x[k] < q})
        hi    == Max(1, Min(below, Len(x) - 1)) + 1
        lo    == hi - 1
        dx    == x[hi] - x[lo]
    IN  IF dx = 0 THEN NaNDay
        ELSE [num |-> y[lo] * dx + (y[hi] - y[lo]) * (q - x[lo]), den |-> dx]

\* warp_func: target day -> reference day
WarpFunc(ref_lm, tgt_lm, q) == Interp1dExtrapolate(Anchors(tgt_lm), Anchors(ref_lm), q)

\* inverse_warp: reference day -> target day
InverseWarp(ref_lm, tgt_lm, q) == Interp1dExtrapolate(Anchors(ref_lm), Anchors(tgt_lm), q)

\* np.clip(t, 0, hi); nan stays nan
ClipTo(t, hi) ==
    IF IsNaNDay(t) THEN NaNDay
    ELSE IF t.num < 0 THEN [num |-> 0, den |-> 1]
    ELSE IF t.num > hi * t.den THEN [num |-> hi, den |-> 1]
    ELSE t

np_clip(t) == ClipTo(t, ClipMax)

\* does interp1d(np.arange(n), curve), which has bounds_error set, accept t
InRange(t, n) == IsNaNDay(t) \/ (0 <= t.num /\ t.num <= (n - 1) * t.den)

\* the value at fractional day t of the curve sampled at days 0..n-1
Resample(curve, t) ==
    IF IsNaNDay(t) THEN NaN
    ELSE LET f == t.num \div t.den
             r == t.num % t.den
         IN  IF r = 0 THEN curve[f + 1]
             ELSE curve[f + 1] + MulDivFloor(curve[f + 2] - curve[f + 1], r, t.den)

\* the warped target curve, or the ValueError of interp1d; the resampling
\* days (original_time_indices) are kept beside the result
WarpWith(ref_curve, tgt_curve, ref_lm, tgt_lm, hi) ==
    LET original_time_indices ==
            [k \in 1..Len(ref_curve) |-> ClipTo(InverseWarp(ref_lm, tgt_lm, k - 1), hi)]
    IN  IF \/ Len(tgt_curve) = 0
           \/ \E k \in 1..Len(ref_curve) : ~InRange(original_time_indices[k], Len(tgt_curve))
        THEN [kind |-> "ValueError", original_time_indices |-> original_time_indices]
        ELSE [kind   |-> "ok",
              warped |-> Strict([k \in 1..Len(ref_curve) |->
                                  Resample(tgt_curve, original_time_indices[k])]),
              original_time_indices |-> original_time_indices]

warp_and_match(ref_curve, tgt_curve, ref_lm, tgt_lm) ==
    WarpWith(ref_curve, tgt_curve, ref_lm, tgt_lm, ClipMax)

(***************************************************************************)
(* calculate_similarity (AHP.py 394-409).  Curves are in CurveUnit.  The   *)
(* distance is kept in the unit of the doubled slopes, 1 / (2 CurveUnit);  *)
(* the similarity is in 1 / ExpScale.  exp is evaluated in fixed point     *)
(* with ExpScale steps per unit: e^-x = e^-n * e^-f, e^f by its series.    *)
(***************************************************************************)
ExpScale == 32768

Sensitivity == 10

\* floor of the mean of |s1 - s2|, summing quotients and remainders apart
MeanAbsDiff(s1, s2) ==
    LET n == Len(s1)
        q == [k \in 1..n |-> Abs(s1[k] - s2[k]) \div n]
        r == [k \in 1..n |-> Abs(s1[k] - s2[k]) % n]
    IN  SumRange(q, 1, n) + SumRange(r, 1, n) \div n

\* ExpScale * e^(f / ExpScale) for 0 <= f < ExpScale: the terms of the series
RECURSIVE ExpSeries(_, _, _)
ExpSeries(t, f, k) ==
    IF t = 0 THEN 0 ELSE t + ExpSeries((t * f) \div (ExpScale * k), f, k + 1)

\* p * e^-n in fixed point
RECURSIVE TimesExpNeg(_, _)
TimesExpNeg(p, n) ==
    IF n = 0 \/ p = 0 THEN p
    ELSE TimesExpNeg((p * ExpScale) \div ExpSeries(ExpScale, ExpScale - 1, 1), n - 1)

\* ExpScale * e^(-x / ExpScale), rounded down, for x >= 0
ExpNeg(x) ==
    LET f == x % ExpScale
        n == x \div ExpScale
    IN  TimesExpNeg((ExpScale * ExpScale) \div ExpSeries(ExpScale, f, 1), n)

\* a variant that leaves out the factor 100
calculate_similarity_Unscaled(curve1, curve2) ==
    LET dist == MeanAbsDiff(np_gradient2(curve1), np_gradient2(curve2))
    IN  [similarity |-> ExpNeg(MulDivFloor(dist, Sensitivity * ExpScale, 2 * CurveUnit)),
         dist       |-> dist]

\* (similarity, dist) of two curves of the same length >= 2 without nan
calculate_similarity(curve1, curve2) ==
    LET s1   == np_gradient2(curve1)
        s2   == np_gradient2(curve2)
        dist == MeanAbsDiff(s1, s2)
        x    == MulDivFloor(dist, Sensitivity * ExpScale, 2 * CurveUnit)
    IN  [similarity |-> 100 * ExpNeg(x), dist |-> dist]

(***************************************************************************)
(* Specification SpecExtract: extract_landmarks applied to series of       *)
(* several lengths: a trapezoid season (flat when amp = 0) with missing    *)
(* samples.                                                                *)
(***************************************************************************)
\* NDVI is base until day a, rises to base + amp at day b, stays until day
\* c and falls back to base at day d (days are Python indices)
Trapezoid(n, base, amp, a, b, c, d) ==
    [k \in 1..n |->
        LET i == k - 1
        IN  IF i < a THEN base
            ELSE IF i < b THEN base + (amp * (i - a)) \div (b - a)
            ELSE IF i < c THEN base + amp
            ELSE IF i < d THEN base + amp - (amp * (i - c)) \div (d - c)
            ELSE base]

\* the samples at Python indices from..to-1 are missing
Missing(s, from, to) == [k \in 1..Len(s) |-> IF from <= k - 1 /\ k - 1 < to THEN NaN ELSE s[k]]

RampLen == 5

ExtractLengths == {0, 3, WindowLength - 1, WindowLength, SplitDay + 20, SeriesLen}

ExtractShapes ==
    {Trapezoid(n, base, amp, a, a + RampLen, c, c + RampLen) :
        n \in ExtractLengths, base \in {10, 20}, amp \in {0, 60},
        a \in {10, 100, 200}, c \in {260, 400}}

ExtractInputs ==
    UNION {{s, Missing(s, 0, 50), Missing(s, 2, Len(s)), Missing(s, 0, Len(s))} : s \in ExtractShapes}

InitExtract ==
    /\ pc = "call"
    /\ arg \in ExtractInputs
    /\ ret = [kind |-> "pending"]
    /\ Idle

CallExtract ==
    /\ pc = "call"
    /\ ret' = extract_landmarks(arg)
    /\ pc' = "return"
    /\ UNCHANGED <<arg, rankVars>>

NextExtract == CallExtract

SpecExtract == InitExtract /\ [][NextExtract]_vars


(***************************************************************************)
(* Specification SpecWarp: warp_and_match applied to short curves of equal *)
(* and of different lengths with landmark days near the start of the year, *)
(* and to curves about a year long.                                        *)
(***************************************************************************)
MaxCurveLen == 4

\* find_peaks never reports the first or the last sample of a series
LandmarkDays == {1, 2, 3, SeriesLen - 2}

\* landmark sets in phase order, as extract_landmarks builds them
LandmarkSets(days) ==
    {lm \in [Greenup : days, Maturity : days, Senescence : days, Dormancy : days] :
        lm.Greenup <= lm.Maturity /\ lm.Maturity <= lm.Senescence /\ lm.Senescence <= lm.Dormancy}

Ramp(n) == [k \in 1..n |-> 6 * k]

Zigzag(n) == [k \in 1..n |-> 6 * (k % 2)]

ShortCurves == UNION {{Ramp(n), Zigzag(n)} : n \in 2..MaxCurveLen}

LongCurves == {Ramp(n) : n \in {SeriesLen - 1, SeriesLen}}

WarpInputs ==
    [ref_curve : ShortCurves, tgt_curve : ShortCurves,
     ref_lm : LandmarkSets(LandmarkDays), tgt_lm : LandmarkSets(LandmarkDays)]
    \cup
    [ref_curve : LongCurves, tgt_curve : LongCurves,
     ref_lm : {DefaultLandmarks, [DefaultLandmarks EXCEPT !.Maturity = 100]},
     tgt_lm : {DefaultLandmarks, [Greenup |-> 50, Maturity |-> 50, Senescence |-> 200, Dormancy |-> 280]}]

InitWarp ==
    /\ pc = "call"
    /\ arg \in WarpInputs
    /\ ret = [kind |-> "pending"]
    /\ Idle

CallWarp ==
    /\ pc = "call"
    /\ ret' = warp_and_match(arg.ref_curve, arg.tgt_curve, arg.ref_lm, arg.tgt_lm)
    /\ pc' = "return"
    /\ UNCHANGED <<arg, rankVars>>

NextWarp == CallWarp

SpecWarp == InitWarp /\ [][NextWarp]_vars

(***************************************************************************)
(* Specification SpecAnchors: the anchors and the two maps that            *)
(* warp_and_match builds (AHP.py 364-383), the maps evaluated on every day *)
(* 0..365, for pairs of landmark sets.                                     *)
(***************************************************************************)
AnchorInputs ==
    [ref_lm : LandmarkSets(LandmarkDays), tgt_lm : LandmarkSets(LandmarkDays)]
    \cup
    [ref_lm : {DefaultLandmarks, [DefaultLandmarks EXCEPT !.Maturity = 100]},
     tgt_lm : {DefaultLandmarks, [Greenup |-> 50, Maturity |-> 50, Senescence |-> 200, Dormancy |-> 280]}]

InitAnchors ==
    /\ pc = "call"
    /\ arg \in AnchorInputs
    /\ ret = [kind |-> "pending"]
    /\ Idle

BuildWarp ==
    /\ pc = "call"
    /\ ret' = [x_ref        |-> Anchors(arg.ref_lm),
               x_tgt        |-> Anchors(arg.tgt_lm),
               warp_func    |-> Strict([k \in 1..YearEnd + 1 |->
                                          WarpFunc(arg.ref_lm, arg.tgt_lm, k - 1)]),
               inverse_warp |-> Strict([k \in 1..YearEnd + 1 |->
                                          InverseWarp(arg.ref_lm, arg.tgt_lm, k - 1)])]
    /\ pc' = "return"
    /\ UNCHANGED <<arg, rankVars>>

NextAnchors == BuildWarp

SpecAnchors == InitAnchors /\ [][NextAnchors]_vars

(***************************************************************************)
(* Specification SpecSim: calculate_similarity applied to two pairs of     *)
(* short curves, so that the scores of two distances can be compared.  A   *)
(* value of 1 is the smallest difference the fixed point can hold; the     *)
(* slopes stay below 1 NDVI per day, where e^(-10 dist) is far above the   *)
(* resolution of the similarity.                                           *)
(***************************************************************************)
MaxSimLen == 2

SimValues == {0, 1, CurveUnit \div 100, CurveUnit \div 10}

SimCurves == UNION {[1..n -> SimValues] : n \in 2..MaxSimLen}

\* the second pair is a curve of two samples against the flat curve
SimInputs ==
    {a \in [curve1 : SimCurves, curve2 : SimCurves,
            other1 : [1..2 -> SimValues], other2 : {<<0, 0>>}] :
        Len(a.curve1) = Len(a.curve2)}

InitSim ==
    /\ pc = "call"
    /\ arg \in SimInputs
    /\ ret = [kind |-> "pending"]
    /\ Idle

CallSim ==
    /\ pc = "call"
    /\ ret' = [first  |-> calculate_similarity(arg.curve1, arg.curve2),
               second |-> calculate_similarity(arg.other1, arg.other2)]
    /\ pc' = "return"
    /\ UNCHANGED <<arg, rankVars>>

NextSim == CallSim

SpecSim == InitSim /\ [][NextSim]_vars

(***************************************************************************)
(* The similarity search (AHP.py 414-444).                                 *)
(*                                                                         *)
(* A region is a number and get_ndvi_series(region) is NdviSeries at that  *)
(* number: three regions with the same season (their scores tie), a        *)
(* season ten days later, a region without any valid sample, a region of   *)
(* constant NDVI, and a series shorter than the smoothing                  *)
(* window.  get_ndvi_series itself always returns SeriesLen samples, so    *)
(* the last region is sampled only by SpecAnyLength.                       *)
(***************************************************************************)
SeasonA == Trapezoid(SeriesLen, 20, 60, 100, 100 + RampLen, 260, 260 + RampLen)

SeasonB == Trapezoid(SeriesLen, 20, 60, 110, 110 + RampLen, 270, 270 + RampLen)

NdviSeries ==
    << SeasonA,
       SeasonA,
       SeasonA,
       SeasonB,
       Missing(SeasonA, 0, SeriesLen),
       Trapezoid(SeriesLen, 20, 0, 0, 1, 2, 3),
       Trapezoid(WindowLength - 1, 20, 10, 10, 15, 20, 25) >>

get_ndvi_series(geom) == NdviSeries[geom]

ref_ndvi == get_ndvi_series(best_geom)

AnyPoints == 1..Len(NdviSeries)

YearPoints == {g \in AnyPoints : Len(NdviSeries[g]) = SeriesLen}

ReferencePoints == {1, 5}

\* extract_landmarks(get_ndvi_series(geom)), computed once per region
Extracted == [g \in AnyPoints |-> extract_landmarks(get_ndvi_series(g))]

\* a variant that never sees None
IsNoneNever(ex) == FALSE

\* `smooth is None`
IsNone(ex) == ex.kind = "None"

\* a variant without the `continue` for a candidate that is None
EvaluateAbortingOnNone(rex, f) ==
    LET ex == Extracted[f]
    IN  IF ex.kind = "ValueError" THEN [do |-> "raise", error |-> "ValueError"]
        ELSE IF ex.kind # "ok" \/ rex.kind # "ok" THEN [do |-> "raise", error |-> "AttributeError"]
        ELSE LET w == warp_and_match(rex.smooth, ex.smooth, rex.landmarks, ex.landmarks)
             IN  IF w.kind = "ValueError" THEN [do |-> "raise", error |-> "ValueError"]
                 ELSE LET sc == calculate_similarity(rex.smooth, w.warped)
                      IN  [do |-> "scored", sim_score |-> sc.similarity, raw_dist |-> sc.dist,
                           smooth |-> ex.smooth, warped |-> w.warped, marks |-> ex.landmarks]

\* The loop body for candidate f up to the score: "skip" (continue),
\* "raise" (an exception nothing catches) or "scored".  With a smooth or
\* ref_smooth that is None, warp_and_match fails on the landmarks' values().
Evaluate(rex, f) ==
    LET ex == Extracted[f]
    IN  IF ex.kind = "ValueError" THEN [do |-> "raise", error |-> "ValueError"]
        ELSE IF IsNone(ex) THEN [do |-> "skip"]
        ELSE IF ex.kind # "ok" \/ rex.kind # "ok" THEN [do |-> "raise", error |-> "AttributeError"]
        ELSE LET w == warp_and_match(rex.smooth, ex.smooth, rex.landmarks, ex.landmarks)
             IN  IF w.kind = "ValueError" THEN [do |-> "raise", error |-> "ValueError"]
                 ELSE LET sc == calculate_similarity(rex.smooth, w.warped)
                      IN  [do |-> "scored", sim_score |-> sc.similarity, raw_dist |-> sc.dist,
                           smooth |-> ex.smooth, warped |-> w.warped, marks |-> ex.landmarks]

\* Evaluate for every reference and candidate, computed once
Evaluated == [r \in ReferencePoints |-> [f \in AnyPoints |-> Evaluate(Extracted[r], f)]]

\* a variant that also drops a score equal to the threshold
BelowThresholdOrEqual(sim_score, threshold) == sim_score <= threshold

\* `if sim_score < SIM_THRESHOLD: continue`
BelowThreshold(sim_score, threshold) == sim_score < threshold

\* a variant that sorts ascending and reverses: ties come out in reverse
SortDescendingTiesReversed(rs) ==
    LET place(k) == 1 + Cardinality({j \in 1..Len(rs) : rs[j].similarity > rs[k].similarity})
                      + Cardinality({j \in k + 1..Len(rs) : rs[j].similarity = rs[k].similarity})
    IN  [p \in 1..Len(rs) |-> rs[CHOOSE k \in 1..Len(rs) : place(k) = p]]

\* results.sort(key=lambda x: x['similarity'], reverse=True): descending,
\* and entries of equal similarity keep their order
SortDescending(rs) ==
    LET place(k) == 1 + Cardinality({j \in 1..Len(rs) : rs[j].similarity > rs[k].similarity})
                      + Cardinality({j \in 1..k - 1 : rs[j].similarity = rs[k].similarity})
    IN  [p \in 1..Len(rs) |-> rs[CHOOSE k \in 1..Len(rs) : place(k) = p]]

\* rs[:n] for n >= 0
FirstN(rs, n) == SubSeq(rs, 1, Min(n, Len(rs)))

\* a variant that lets an empty list pass
IsEmptyNever(rs) == FALSE

\* `not top_results`
IsEmpty(rs) == Len(rs) = 0

MaxCands == 3

MaxTopN == 2

\* the program's SIM_THRESHOLD, a stricter one, and the highest similarity there is
Thresholds == {60 * ExpScale, 98 * ExpScale, 100 * ExpScale}

\* sampled points are distinct
SamplesOf(points) ==
    {s \in UNION {[1..n -> points] : n \in 0..MaxCands} :
        \A i, j \in 1..Len(s) : s[i] = s[j] => i = j}

InitWith(points) ==
    /\ pc = "reference"
    /\ best_geom \in ReferencePoints
    /\ sample_pts \in SamplesOf(points)
    /\ SIM_THRESHOLD \in Thresholds
    /\ TOP_N \in 1..MaxTopN
    /\ ref_smooth = <<>>
    /\ ref_marks = <<>>
    /\ idx = 0
    /\ evaluated = <<>>
    /\ results = <<>>
    /\ top_results = <<>>
    /\ error = "none"
    /\ arg = <<>>
    /\ ret = [kind |-> "pending"]
    /\ NoSession

Init == InitWith(YearPoints)

InitAnyLength == InitWith(AnyPoints)

\* lines 414-416, rex being extract_landmarks(ref_ndvi)
ExtractReferenceWith(rex) ==
    /\ IF rex.kind = "ValueError"
       THEN /\ pc' = "raised"
            /\ error' = "ValueError"
            /\ UNCHANGED <<ref_smooth, ref_marks>>
       ELSE IF IsNone(rex)
       THEN /\ pc' = "raised"
            /\ error' = "ReferenceUnusable"
            /\ UNCHANGED <<ref_smooth, ref_marks>>
       ELSE /\ pc' = "loop"
            /\ ref_smooth' = (IF rex.kind = "ok" THEN rex.smooth ELSE <<>>)
            /\ ref_marks' = (IF rex.kind = "ok" THEN rex.landmarks ELSE <<>>)
            /\ error' = error
    /\ UNCHANGED <<best_geom, sample_pts, SIM_THRESHOLD, TOP_N, idx, evaluated,
                   results, top_results, arg, ret, sessionVars>>

ExtractReference ==
    /\ pc = "reference"
    /\ ExtractReferenceWith(Extracted[best_geom])

\* one pass of the loop, lines 419-438, for candidate f with e = Evaluate(.., f)
LoopBodyFor(f, e) ==
    /\ idx' = idx + 1
    /\ evaluated' = Append(evaluated, f)
    /\ IF e.do = "raise"
       THEN /\ pc' = "raised"
            /\ error' = e.error
            /\ results' = results
       ELSE IF e.do = "skip" \/ BelowThreshold(e.sim_score, SIM_THRESHOLD)
       THEN UNCHANGED <<pc, error, results>>
       ELSE /\ results' = Append(results,
                                 [geometry   |-> f,
                                  similarity |-> e.sim_score,
                                  distance   |-> e.raw_dist,
                                  smooth     |-> e.smooth,
                                  warped     |-> e.warped,
                                  landmarks  |-> e.marks])
            /\ UNCHANGED <<pc, error>>
    /\ UNCHANGED <<best_geom, sample_pts, SIM_THRESHOLD, TOP_N, ref_smooth, ref_marks,
                   top_results, arg, ret, sessionVars>>

LoopBody ==
    /\ pc = "loop"
    /\ idx < Len(sample_pts)
    /\ LoopBodyFor(sample_pts[idx + 1], Evaluated[best_geom][sample_pts[idx + 1]])

\* lines 440-444
RankResults ==
    /\ pc = "loop"
    /\ idx = Len(sample_pts)
    /\ results' = SortDescending(results)
    /\ top_results' = FirstN(results', TOP_N)
    /\ IF IsEmpty(top_results')
       THEN pc' = "raised" /\ error' = "NoMatchFound"
       ELSE pc' = "done" /\ error' = error
    /\ UNCHANGED <<best_geom, sample_pts, SIM_THRESHOLD, TOP_N, ref_smooth, ref_marks,
                   idx, evaluated, arg, ret, sessionVars>>

Next == ExtractReference \/ LoopBody \/ RankResults

Spec == Init /\ [][Next]_vars

SpecAnyLength == InitAnyLength /\ [][Next]_vars


(***************************************************************************)
(* Specification SpecSession: one browser session of the dashboard         *)
(* (src/app.py).  Every interaction runs app.py from the top; what         *)
(* persists is session_state and the files on disk.  A run of a script is  *)
(* taken by its outcome: it returns, raises an Exception, or leaves by     *)
(* exit(1), which raises SystemExit.                                       *)
(***************************************************************************)
OUTPUT_SUITABILITY_MAP == "suitability_map.html"
OUTPUT_SIMILARITY_MAP == "similar_regions_map.html"
OUTPUT_SIMILARITY_CSV == "similar_regions.csv"
OUTPUT_PHENOLOGY_PNG == "phenology_matching_analysis.png"

AhpFiles == {OUTPUT_SUITABILITY_MAP}
HybridFiles == {OUTPUT_SIMILARITY_MAP, OUTPUT_SIMILARITY_CSV, OUTPUT_PHENOLOGY_PNG}

ScanModes == {"satellite", "iot", "asset"}

\* how run_ahp_analysis can end: AHP.py runs to its end, an Earth Engine
\* call raises, or ee.Initialize fails and the script calls exit(1)
AhpOutcomes == {"returned", "Exception", "SystemExit"}

\* how run_hybrid_matching can end: the script runs to its end or raises
\* (RuntimeError of the search, or any error of a library call)
HybridOutcomes == {"returned", "Exception"}

\* the block after the AHP button
ShowAhpOutputs(state, fs) ==
    IF state.ahp_done /\ OUTPUT_SUITABILITY_MAP \in fs THEN {OUTPUT_SUITABILITY_MAP} ELSE {}

\* the block after the matching button
ShowHybridOutputs(state, fs) ==
    IF state.hybrid_done THEN fs \cap HybridFiles ELSE {}

\* the output files a run of app.py displays when no script is run or
\* after the script's try statement is left
Displayed(mode, state, fs) ==
    IF mode = "satellite" THEN ShowAhpOutputs(state, fs)
    ELSE IF mode = "asset" THEN ShowHybridOutputs(state, fs)
    ELSE {}

Rendered(run, outcome, message, displayed) ==
    [run |-> run, outcome |-> outcome, message |-> message, displayed |-> displayed]

\* a run of app.py that was cut at the call of the script by an exception
\* the handler does not catch: neither st.success nor st.error ran, and the
\* display block was not reached
CutShort(run, outcome) == Rendered(run, outcome, "none", {})

InitSession ==
    /\ pc = "page"
    /\ arg = <<>>
    /\ ret = [kind |-> "pending"]
    /\ best_geom = 0
    /\ sample_pts = <<>>
    /\ SIM_THRESHOLD = 0
    /\ TOP_N = 0
    /\ ref_smooth = <<>>
    /\ ref_marks = <<>>
    /\ idx = 0
    /\ evaluated = <<>>
    /\ results = <<>>
    /\ top_results = <<>>
    /\ error = "none"
    /\ session_state = [ahp_done |-> FALSE, hybrid_done |-> FALSE]
    /\ scan_mode = "satellite"
    /\ files \in SUBSET (AhpFiles \cup HybridFiles)
    /\ history = {}
    /\ page = Rendered("none", "none", "none", Displayed(scan_mode, session_state, files))

idleVars == <<pc, arg, ret, best_geom, sample_pts, SIM_THRESHOLD, TOP_N, ref_smooth,
              ref_marks, idx, evaluated, results, top_results, error>>

\* the user picks a mode in the sidebar: a run of app.py with no button pressed
SelectScanMode ==
    /\ pc = "page"
    /\ \E m \in ScanModes :
          /\ scan_mode' = m
          /\ page' = Rendered("none", "none", "none", Displayed(m, session_state, files))
    /\ UNCHANGED <<session_state, files, history, idleVars>>

\* the outcome of the try statement around a script: flag and message
AfterTry(flag, outcome) ==
    IF outcome = "returned"
    THEN [state |-> [session_state EXCEPT ![flag] = TRUE], message |-> "success"]
    ELSE [state |-> session_state, message |-> "error"]

\* the button of section 1.1
PressAhp ==
    /\ pc = "page"
    /\ scan_mode = "satellite"
    /\ \E outcome \in AhpOutcomes, written \in SUBSET AhpFiles :
          /\ files' = files \cup written
          /\ IF outcome = "SystemExit"
             THEN /\ session_state' = session_state
                  /\ page' = CutShort("ahp", outcome)
             ELSE /\ session_state' = AfterTry("ahp_done", outcome).state
                  /\ page' = Rendered("ahp", outcome, AfterTry("ahp_done", outcome).message,
                                      ShowAhpOutputs(session_state', files'))
          /\ history' = (IF outcome = "returned" THEN history \cup {"ahp"} ELSE history)
    /\ UNCHANGED <<scan_mode, idleVars>>

\* the button of section 3.1; the script imports AHP, which writes the
\* suitability map as well
PressHybrid ==
    /\ pc = "page"
    /\ scan_mode = "asset"
    /\ \E outcome \in HybridOutcomes, written \in SUBSET (AhpFiles \cup HybridFiles) :
          /\ files' = files \cup written
          /\ session_state' = AfterTry("hybrid_done", outcome).state
          /\ page' = Rendered("hybrid", outcome, AfterTry("hybrid_done", outcome).message,
                              ShowHybridOutputs(session_state', files'))
          /\ history' = (IF outcome = "returned" THEN history \cup {"hybrid"} ELSE history)
    /\ UNCHANGED <<scan_mode, idleVars>>

NextSession == SelectScanMode \/ PressAhp \/ PressHybrid

SpecSession == InitSession /\ [][NextSession]_vars


(***************************************************************************)
(* Claims about the similarity search (Spec, SpecAnyLength)                *)
(***************************************************************************)
NumValid(s) == Cardinality({k \in 1..Len(s) : ~IsNaN(s[k])})

\* the loop body's outcome for candidate g against the reference of the run
Outcome(g) == Evaluated[best_geom][g]

Scored(g) == Outcome(g).do = "scored"

\* extract_landmarks returns (None, None) for the candidate
Rejected(g) == Extracted[g].kind = "None"

Survives(g) == Scored(g) /\ Outcome(g).sim_score >= SIM_THRESHOLD

Survivors == SelectSeq(sample_pts, Survives)

ReferenceUsable == Extracted[best_geom].kind = "ok"

\* the script ran to its end: a ranking, or the error that there is none
RankingCompleted == pc = "done" \/ (pc = "raised" /\ error = "NoMatchFound")

PosIn(s, g) == CHOOSE k \in 1..Len(s) : s[k] = g

InTop(g) == \E k \in 1..Len(top_results) : top_results[k].geometry = g

\* C1: once the ranking has completed, top_results is the first TOP_N
\* entries of the candidates with similarity >= SIM_THRESHOLD in descending
\* similarity: it has min(TOP_N, number of such candidates) entries, each a
\* different such candidate with its score, in descending order, and every
\* such candidate left out scores no more than any entry.
C1_TopResultsAreTheBestSurvivors ==
    RankingCompleted =>
        /\ Len(top_results) = Min(TOP_N, Len(Survivors))
        /\ \A k \in 1..Len(top_results) :
              /\ \E i \in 1..Len(sample_pts) : sample_pts[i] = top_results[k].geometry
              /\ Survives(top_results[k].geometry)
              /\ top_results[k].similarity = Outcome(top_results[k].geometry).sim_score
              /\ top_results[k].similarity >= SIM_THRESHOLD
        /\ \A j, k \in 1..Len(top_results) :
              /\ j # k => top_results[j].geometry # top_results[k].geometry
              /\ j < k => top_results[j].similarity >= top_results[k].similarity
        /\ \A i \in 1..Len(Survivors) : \A k \in 1..Len(top_results) :
              ~InTop(Survivors[i]) => Outcome(Survivors[i]).sim_score <= top_results[k].similarity

\* a candidate below the threshold was dropped, the two others were put in
\* descending order against the sampling order, and the lower one was cut
C1_Witness ==
    /\ pc = "done"
    /\ \E i \in 1..Len(sample_pts) : Scored(sample_pts[i]) /\ ~Survives(sample_pts[i])
    /\ Len(Survivors) = 2
    /\ Outcome(Survivors[1]).sim_score < Outcome(Survivors[2]).sim_score
    /\ Len(top_results) = 1
    /\ top_results[1].geometry = Survivors[2]

\* C2: candidates of equal similarity stand in top_results in the order of
\* sample_pts, and of tied candidates the ones cut by TOP_N are the ones
\* sampled later.
C2_TiesKeepSamplingOrder ==
    RankingCompleted =>
        /\ \A j, k \in 1..Len(top_results) :
              (j < k /\ top_results[j].similarity = top_results[k].similarity) =>
                  PosIn(sample_pts, top_results[j].geometry) < PosIn(sample_pts, top_results[k].geometry)
        /\ \A i \in 1..Len(Survivors) : \A k \in 1..Len(top_results) :
              (~InTop(Survivors[i]) /\ Outcome(Survivors[i]).sim_score = top_results[k].similarity) =>
                  PosIn(sample_pts, top_results[k].geometry) < PosIn(sample_pts, Survivors[i])

\* three candidates tied, sampled in another order than their numbers; two
\* were reported and the third was cut
C2_Witness ==
    /\ pc = "done"
    /\ Len(Survivors) = 3
    /\ \A i \in 1..3 : Outcome(Survivors[i]).sim_score = Outcome(Survivors[1]).sim_score
    /\ sample_pts[1] > sample_pts[2]
    /\ Len(top_results) = 2

\* C3: when the script gets through the loop and no candidate has a
\* similarity >= SIM_THRESHOLD (no candidate at all, or all of them rejected
\* or below the threshold), it ends with the error NoMatchFound; it never
\* ends successfully with an empty top_results.
C3_NoSurvivorIsNoMatchFound ==
    /\ (pc \in {"done", "raised"} /\ ReferenceUsable /\ Len(evaluated) = Len(sample_pts)
            /\ error \notin {"ValueError", "AttributeError"} /\ Len(Survivors) = 0) =>
          (pc = "raised" /\ error = "NoMatchFound")
    /\ pc = "done" => (error = "none" /\ Len(top_results) > 0)

\* a rejected candidate and one below the threshold were all there was
C3_Witness ==
    /\ pc = "raised"
    /\ error = "NoMatchFound"
    /\ \E i \in 1..Len(sample_pts) : Rejected(sample_pts[i])
    /\ \E i \in 1..Len(sample_pts) : Scored(sample_pts[i]) /\ ~Survives(sample_pts[i])

\* C4: in a run whose reference series fails extraction (returns None), no
\* candidate is ever evaluated and no result is ever produced, and the only
\* way the run ends is the error ReferenceUnusable.
C4_UnusableReferenceAbortsFirst ==
    Extracted[best_geom].kind = "None" =>
        /\ pc \in {"reference", "raised"}
        /\ pc = "raised" => error = "ReferenceUnusable"
        /\ idx = 0
        /\ evaluated = <<>>
        /\ results = <<>>
        /\ top_results = <<>>

\* a run with an all-missing reference and candidates to evaluate was aborted
C4_Witness ==
    /\ pc = "raised"
    /\ error = "ReferenceUnusable"
    /\ NumValid(ref_ndvi) = 0
    /\ Len(sample_pts) > 0

\* the ranking of a sequence of candidates, as their regions
RECURSIVE BestFirst(_)
BestFirst(cands) ==
    IF cands = <<>> THEN <<>>
    ELSE LET best == CHOOSE i \in 1..Len(cands) :
                        \A j \in 1..Len(cands) :
                            \/ Outcome(cands[j]).sim_score < Outcome(cands[i]).sim_score
                            \/ Outcome(cands[j]).sim_score = Outcome(cands[i]).sim_score /\ i <= j
         IN  <<cands[best]>> \o BestFirst(SelectSeq(cands, LAMBDA g : g # cands[best]))

RankingOf(cands) == FirstN(BestFirst(SelectSeq(cands, Survives)), TOP_N)

NotRejected(g) == ~Rejected(g)

\* C5: with a usable reference, a rejected candidate never ends the run
\* with an exception and never enters results; when the run has completed,
\* every candidate has been evaluated and top_results is the ranking of
\* sample_pts without its rejected candidates.
C5_RejectedCandidateIsSkipped ==
    ReferenceUsable =>
        /\ \A k \in 1..Len(evaluated) :
              Rejected(evaluated[k]) => (pc = "raised" => error = "NoMatchFound")
        /\ \A k \in 1..Len(results) : ~Rejected(results[k].geometry)
        /\ (pc \in {"done", "raised"} /\ \E i \in 1..Len(sample_pts) : Rejected(sample_pts[i])) =>
              /\ RankingCompleted
              /\ evaluated = sample_pts
              /\ [k \in 1..Len(top_results) |-> top_results[k].geometry]
                    = RankingOf(SelectSeq(sample_pts, NotRejected))

\* a rejected candidate came first, the candidates after it were evaluated
\* and one of them was reported
C5_Witness ==
    /\ pc = "done"
    /\ Len(sample_pts) = 3
    /\ Rejected(sample_pts[1])
    /\ evaluated = sample_pts
    /\ Len(top_results) > 0

\* C7: a candidate series shorter than the smoothing window is skipped like
\* a rejected one: it never ends the run with an exception and never enters
\* results, and when the run is over every candidate has been evaluated.
C7_ShortCandidateIsSkipped ==
    (ReferenceUsable /\ \E i \in 1..Len(sample_pts) :
                            Len(get_ndvi_series(sample_pts[i])) < WindowLength) =>
        /\ pc = "raised" => error = "NoMatchFound"
        /\ \A k \in 1..Len(results) : Len(get_ndvi_series(results[k].geometry)) >= WindowLength
        /\ pc \in {"done", "raised"} => evaluated = sample_pts

(***************************************************************************)
(* Claims about clean_ndvi_series (SpecClean)                              *)
(***************************************************************************)
\* C6: clean rejects a series exactly when it has fewer than 3 valid samples
\* (all-missing and empty included); otherwise it returns a series of the
\* same length without a missing entry in which every valid sample of the
\* input keeps its value.
C6_CleanRejectsExactlyBelowThreeValid ==
    pc = "return" =>
        /\ ret.kind \in {"None", "ok"}
        /\ ret.kind = "None" <=> NumValid(arg) < 3
        /\ ret.kind = "ok" =>
              /\ Len(ret.series) = Len(arg)
              /\ \A k \in 1..Len(arg) :
                    /\ ~IsNaN(ret.series[k])
                    /\ ~IsNaN(arg[k]) => ret.series[k] = arg[k]

\* a series with exactly 3 valid samples and missing ones around them was cleaned
C6_Witness ==
    /\ pc = "return"
    /\ NumValid(arg) = 3
    /\ Len(arg) = MaxLen
    /\ IsNaN(arg[1])
    /\ ret.kind = "ok"

\* C11: cleaning a cleaned series changes nothing: for a series with at
\* least 3 valid samples, clean(clean(s)) is clean(s), entry by entry.
C11_CleanIsIdempotent ==
    (pc = "return" /\ NumValid(arg) >= 3) =>
        /\ ret.kind = "ok"
        /\ clean_ndvi_series(ret.series).kind = "ok"
        /\ Len(clean_ndvi_series(ret.series).series) = Len(ret.series)
        /\ \A k \in 1..Len(ret.series) : clean_ndvi_series(ret.series).series[k] = ret.series[k]

\* a series with several missing entries, at both ends and inside, was cleaned
C11_Witness ==
    /\ pc = "return"
    /\ Len(arg) = MaxLen
    /\ IsNaN(arg[1])
    /\ IsNaN(arg[MaxLen])
    /\ NumValid(arg) = MaxLen - 2
    /\ ret.kind = "ok"
    /\ clean_ndvi_series(ret.series).kind = "ok"

\* the valid positions of s next to position k
ValidBefore(s, k) == {j \in 1..k - 1 : ~IsNaN(s[j])}

ValidAfter(s, k) == {j \in k + 1..Len(s) : ~IsNaN(s[j])}

SetMax(S) == CHOOSE m \in S : \A j \in S : j <= m

SetMin(S) == CHOOSE m \in S : \A j \in S : m <= j

\* v lies at position k on the line through (i, s[i]) and (j, s[j])
OnLine(s, i, j, k, v) == (v - s[i]) * (j - i) = (s[j] - s[i]) * (k - i)

\* a missing entry between two valid samples holds their linear interpolant
InteriorInterpolated ==
    \A k \in 1..Len(arg) :
        (IsNaN(arg[k]) /\ ValidBefore(arg, k) # {} /\ ValidAfter(arg, k) # {}) =>
            OnLine(arg, SetMax(ValidBefore(arg, k)), SetMin(ValidAfter(arg, k)), k, ret.series[k])

\* C12 as stated: a missing entry before the first or after the last valid
\* sample continues the line through the two nearest valid samples, and a
\* missing entry between two valid samples holds their linear interpolant.
C12_EdgesExtrapolated ==
    (pc = "return" /\ ret.kind = "ok") =>
        /\ InteriorInterpolated
        /\ \A k \in 1..Len(arg) :
              (IsNaN(arg[k]) /\ ValidBefore(arg, k) = {}) =>
                  LET i == SetMin(ValidAfter(arg, k))
                  IN  OnLine(arg, i, SetMin(ValidAfter(arg, i)), k, ret.series[k])
        /\ \A k \in 1..Len(arg) :
              (IsNaN(arg[k]) /\ ValidAfter(arg, k) = {}) =>
                  LET j == SetMax(ValidBefore(arg, k))
                  IN  OnLine(arg, SetMax(ValidBefore(arg, j)), j, k, ret.series[k])

\* C12 amended: a missing entry before the first valid sample holds the
\* first valid sample's value and one after the last valid sample holds the
\* last valid sample's value; a missing entry between two valid samples
\* holds their linear interpolant.
C12_EdgesHoldNearestValid ==
    (pc = "return" /\ ret.kind = "ok") =>
        /\ InteriorInterpolated
        /\ \A k \in 1..Len(arg) :
              (IsNaN(arg[k]) /\ ValidBefore(arg, k) = {}) =>
                  ret.series[k] = arg[SetMin(ValidAfter(arg, k))]
        /\ \A k \in 1..Len(arg) :
              (IsNaN(arg[k]) /\ ValidAfter(arg, k) = {}) =>
                  ret.series[k] = arg[SetMax(ValidBefore(arg, k))]

\* a series was cleaned that misses its first entry before a rising pair of
\* valid samples and an entry between two different valid samples
C12_Witness ==
    /\ pc = "return"
    /\ ret.kind = "ok"
    /\ Len(arg) = MaxLen
    /\ IsNaN(arg[1])
    /\ ~IsNaN(arg[2])
    /\ \E k \in 3..MaxLen - 1 :
          /\ IsNaN(arg[k])
          /\ ~IsNaN(arg[k - 1]) /\ ~IsNaN(arg[k + 1]) /\ arg[k - 1] # arg[k + 1]
          /\ arg[k + 1] # arg[2]

(***************************************************************************)
(* Claims about extract_landmarks (SpecExtract)                            *)
(***************************************************************************)
IsFlat(s) == \A k \in 1..Len(s) : ~IsNaN(s[k]) /\ s[k] = s[1]

\* C10: when the upward or the downward peak list is empty (as for a flat
\* series), extract_landmarks returns the whole fixed set {Greenup: 100,
\* Maturity: 150, Senescence: 260, Dormancy: 300}, never a mix of detected
\* and fixed days, and returns it with the smoothed curve, not as (None, None).
C10_FallbackIsTheWholeFixedSet ==
    pc = "return" =>
        /\ (ret.kind = "ok" /\ (ret.upward_peaks = <<>> \/ ret.downward_peaks = <<>>)) =>
              /\ ret.landmarks =
                    [Greenup |-> 100, Maturity |-> 150, Senescence |-> 260, Dormancy |-> 300]
              /\ Len(ret.smooth) = Len(arg)
        /\ (IsFlat(arg) /\ Len(arg) >= 31) =>
              /\ ret.kind = "ok"
              /\ ret.upward_peaks = <<>>
              /\ ret.downward_peaks = <<>>
              /\ ret.landmarks =
                    [Greenup |-> 100, Maturity |-> 150, Senescence |-> 260, Dormancy |-> 300]

\* upward peaks were detected, no downward peak was, and the fixed set came back
C10_Witness ==
    /\ pc = "return"
    /\ ret.kind = "ok"
    /\ ret.upward_peaks # <<>>
    /\ ret.downward_peaks = <<>>
    /\ ret.landmarks = DefaultLandmarks

\* C15: every landmark set that extract_landmarks returns, detected or
\* fallback, has 0 <= Greenup <= Maturity < 180 <= Senescence <= Dormancy
\* <= 364.
C15_LandmarksInPhaseOrder ==
    (pc = "return" /\ ret.kind = "ok") =>
        /\ 0 <= ret.landmarks.Greenup
        /\ ret.landmarks.Greenup <= ret.landmarks.Maturity
        /\ ret.landmarks.Maturity < 180
        /\ 180 <= ret.landmarks.Senescence
        /\ ret.landmarks.Senescence <= ret.landmarks.Dormancy
        /\ ret.landmarks.Dormancy <= 364

\* a set taken from detected peaks on both sides was returned
C15_Witness ==
    /\ pc = "return"
    /\ ret.kind = "ok"
    /\ ret.upward_peaks # <<>>
    /\ ret.downward_peaks # <<>>
    /\ ret.landmarks.Greenup = ret.upward_peaks[1]
    /\ ret.landmarks.Dormancy = ret.downward_peaks[Len(ret.downward_peaks)]
    /\ ret.landmarks # DefaultLandmarks

(***************************************************************************)
(* Claims about the anchors and the warp maps (SpecAnchors)                *)
(***************************************************************************)
\* x is a sequence of 6 days from 0 to 365 in ascending order
IsAnchorSequence(x) ==
    /\ Len(x) = 6
    /\ x[1] = 0
    /\ x[6] = 365
    /\ \A k \in 1..5 : x[k] <= x[k + 1]

\* f, the values of a map on the days 0..365, never decreases, sends 0 to 0
\* and 365 to 365, and sends each anchor of x that is the first of its day
\* to the anchor of y at the same place
IsMonotoneThrough(f, x, y) ==
    /\ Len(f) = 366
    /\ \A k \in 1..366 : ~IsNaNDay(f[k]) /\ f[k].den > 0
    /\ f[1].num = 0
    /\ f[366].num = 365 * f[366].den
    /\ \A k \in 1..365 : f[k].num * f[k + 1].den <= f[k + 1].num * f[k].den
    /\ \A k \in 1..Len(x) :
          (k = 1 \/ x[k - 1] < x[k]) => f[x[k] + 1].num = y[k] * f[x[k] + 1].den

FullScore == 100 * ExpScale

C8_ResamplingDaysWithinTarget ==
    pc = "return" =>
        /\ ret.kind = "ok"
        /\ Len(ret.warped) = Len(arg.ref_curve)
        /\ \A k \in 1..Len(arg.ref_curve) :
              LET t == ret.original_time_indices[k]
              IN  ~IsNaNDay(t) /\ 0 <= t.num /\ t.num <= (Len(arg.tgt_curve) - 1) * t.den

Raised == {"Exception", "SystemExit"}

\* each flag is true exactly if a run of its script has returned
FlagsTrackFinishedRuns ==
    /\ session_state.ahp_done <=> "ahp" \in history
    /\ session_state.hybrid_done <=> "hybrid" \in history

\* the page of a run that raised carries the error message
RaisedRunShowsError == page.outcome \in Raised => page.message = "error"

\* output files of a script are on the page only while its flag is true
DisplayedOnlyWhileDone ==
    /\ page.displayed \cap AhpFiles # {} => session_state.ahp_done
    /\ page.displayed \cap HybridFiles # {} => session_state.hybrid_done

\* a run that raised left both flags as they were
RaisedRunKeepsFlags == page'.outcome \in Raised => session_state' = session_state

\* a flag that is true stays true
FlagsNeverReset ==
    /\ session_state.ahp_done => session_state'.ahp_done
    /\ session_state.hybrid_done => session_state'.hybrid_done

\* C16: in a session each flag is true exactly if a run of its script has
\* finished without raising; a run that raises shows an error and leaves
\* both flags unchanged; a flag once true is never reset; output files of a
\* script are displayed only while its flag is true.
C16_FlagsFollowRunsAndErrorsAreShown ==
    /\ [](pc = "page" =>
            FlagsTrackFinishedRuns /\ RaisedRunShowsError /\ DisplayedOnlyWhileDone)
    /\ [][pc = "page" => RaisedRunKeepsFlags /\ FlagsNeverReset]_vars

\* the same without the error message: what holds of every run
C16_FlagsFollowRuns ==
    /\ [](pc = "page" => FlagsTrackFinishedRuns /\ DisplayedOnlyWhileDone)
    /\ [][pc = "page" => RaisedRunKeepsFlags /\ FlagsNeverReset]_vars

====
